---- MODULE Spec2Model ----
(***************************************************************************)
(* A model of yaml_resume_builder/template_renderer.py: the LaTeX escaper, *)
(* the field validator, the section builders and render_template.          *)
(*                                                                         *)
(* Python values are tagged records [t |-> <type>, v |-> <payload>]:       *)
(*   str  : v is a TLA+ string (TLC's Len, SubSeq and \o act on strings)   *)
(*   int  : v is an integer          none : v is 0                         *)
(*   list : v is a sequence of values                                      *)
(*   dict : v is a sequence of <<key, value>> pairs in insertion order,    *)
(*          keys are strings and unique                                    *)
(* A Python str that a function returns is a plain TLA+ string.            *)
(***************************************************************************)
EXTENDS Integers, Sequences, FiniteSets, TLC

VARIABLES
    pc,         \* "ready" before the call, "done" after it
    value,      \* escape_latex: the argument
    escaped,    \* escape_latex: the returned str
    data,       \* render_template: the root map
    template,   \* render_template: the text of resume.tex.template
    result,     \* render_template: [exc |-> "" or the exception raised, doc |-> the returned str]
    apc,        \* render_template: achievements_publications_content
    log         \* the warnings logged, in order

vars == <<pc, value, escaped, data, template, result, apc, log>>

----------------------------------------------------------------------------
(* Python values *)

Str(s) == [t |-> "str", v |-> s]

PyInt(n) == [t |-> "int", v |-> n]

None == [t |-> "none", v |-> 0]

List(xs) == [t |-> "list", v |-> xs]

Dict(ps) == [t |-> "dict", v |-> ps]

isinstance(x, type) == x.t = type

\* bool(x): the truth value of a Python value
Truthy(x) ==
    CASE x.t = "str" -> x.v # ""
      [] x.t = "int" -> x.v # 0
      [] x.t = "none" -> FALSE
      [] OTHER -> Len(x.v) > 0

\* key in d
HasKey(d, k) == \E i \in 1..Len(d.v) : d.v[i][1] = k

\* d[k], for a key that d has
Get(d, k) == d.v[CHOOSE i \in 1..Len(d.v) : d.v[i][1] = k][2]

\* the keys of d in iteration order
Keys(d) == [i \in 1..Len(d.v) |-> d.v[i][1]]

----------------------------------------------------------------------------
(* Python str operations *)

Min(S) == CHOOSE i \in S : \A j \in S : i <= j

\* s.find(sub, start): the lowest index (from 0) at or after start where sub
\* occurs, -1 when there is none; a negative start counts from the end.
PyFind(s, sub, start) ==
    LET n == Len(s)
        m == Len(sub)
        b == IF start < 0 THEN (IF n + start < 0 THEN 0 ELSE n + start) ELSE start
        hits == {i \in b..(n - m) : SubSeq(s, i + 1, i + m) = sub}
    IN  IF hits = {} THEN -1 ELSE Min(hits)

\* sub in s
Contains(s, sub) == PyFind(s, sub, 0) # -1

\* s[:j] and s[i:], with Python's clamping of the index
SliceTo(s, j) ==
    LET n == Len(s)
        e == IF j < 0 THEN (IF n + j < 0 THEN 0 ELSE n + j) ELSE (IF j > n THEN n ELSE j)
    IN  SubSeq(s, 1, e)

SliceFrom(s, i) ==
    LET n == Len(s)
        b == IF i < 0 THEN (IF n + i < 0 THEN 0 ELSE n + i) ELSE (IF i > n THEN n ELSE i)
    IN  SubSeq(s, b + 1, n)

\* s.replace(old, new) for a non-empty old: every non-overlapping occurrence,
\* found left to right, is replaced
RECURSIVE Replace(_, _, _)
Replace(s, old, new) ==
    LET i == PyFind(s, old, 0)
    IN  IF i = -1 THEN s
        ELSE SubSeq(s, 1, i) \o new \o Replace(SubSeq(s, i + Len(old) + 1, Len(s)), old, new)

\* sep.join(xs) for a sequence of strs
RECURSIVE Join(_, _)
Join(sep, xs) ==
    IF Len(xs) = 0 THEN ""
    ELSE IF Len(xs) = 1 THEN xs[1]
    ELSE xs[1] \o sep \o Join(sep, Tail(xs))

\* repr(s) of a str without quotes, control or non-ASCII characters
ReprStr(s) == "'" \o Replace(s, "\\", "\\\\") \o "'"

\* str(x) and repr(x)
RECURSIVE PyRepr(_)
PyRepr(x) ==
    CASE x.t = "str" -> ReprStr(x.v)
      [] x.t = "int" -> ToString(x.v)
      [] x.t = "none" -> "None"
      [] x.t = "list" -> "[" \o Join(", ", [i \in 1..Len(x.v) |-> PyRepr(x.v[i])]) \o "]"
      [] x.t = "dict" ->
            "{" \o Join(", ", [i \in 1..Len(x.v) |->
                        ReprStr(x.v[i][1]) \o ": " \o PyRepr(x.v[i][2])]) \o "}"

PyStr(x) == IF x.t = "str" THEN x.v ELSE PyRepr(x)

----------------------------------------------------------------------------
(* escape_latex *)

\* a faulty variant of latex_special_chars that replaces the backslash last
latex_special_chars_backslash_last ==
    << <<"&", "\\&">>, <<"%", "\\%">>, <<"$", "\\$">>, <<"#", "\\#">>,
       <<"_", "\\_">>, <<"{", "\\{">>, <<"}", "\\}">>,
       <<"~", "\\textasciitilde{}">>, <<"^", "\\textasciicircum{}">>,
       <<"\\", "\\textbackslash{}">> >>

\* a faulty variant of latex_special_chars that has no entry for the percent sign
latex_special_chars_no_percent ==
    << <<"\\", "\\textbackslash{}">>, <<"&", "\\&">>, <<"$", "\\$">>, <<"#", "\\#">>,
       <<"_", "\\_">>, <<"{", "\\{">>, <<"}", "\\}">>,
       <<"~", "\\textasciitilde{}">>, <<"^", "\\textasciicircum{}">> >>

\* a faulty variant of latex_special_chars that has no entries for the braces
latex_special_chars_no_braces ==
    << <<"\\", "\\textbackslash{}">>, <<"&", "\\&">>, <<"%", "\\%">>, <<"$", "\\$">>,
       <<"#", "\\#">>, <<"_", "\\_">>,
       <<"~", "\\textasciitilde{}">>, <<"^", "\\textasciicircum{}">> >>

\* the table, in the dict's insertion order
latex_special_chars ==
    << <<"\\", "\\textbackslash{}">>, <<"&", "\\&">>, <<"%", "\\%">>, <<"$", "\\$">>,
       <<"#", "\\#">>, <<"_", "\\_">>, <<"{", "\\{">>, <<"}", "\\}">>,
       <<"~", "\\textasciitilde{}">>, <<"^", "\\textasciicircum{}">> >>

\* text = text.replace(old, new) for each pair of the table in order: the loop
\* of escape_latex and the chain of replace calls of render_template.  Each
\* step's text is computed before the next step starts, as the statements run;
\* the empty text has nothing to replace.
RECURSIVE ReplaceEach(_, _)
ReplaceEach(text, table) ==
    IF Len(table) = 0 \/ Len(text) = 0 THEN text
    ELSE ReplaceEach(Replace(text, table[1][1], table[1][2]), Tail(table))

\* a faulty variant of escape_latex that escapes the string form of a non-string
escape_latex_str_then_escape(text) == ReplaceEach(PyStr(text), latex_special_chars)

escape_latex(text) ==
    IF ~isinstance(text, "str") THEN PyStr(text)
    ELSE ReplaceEach(text.v, latex_special_chars)

----------------------------------------------------------------------------
(* Exceptions.  A function that can raise returns [exc, out]: exc is "" and  *)
(* out the returned value, or exc names the exception raised.                *)

Ok(x) == [exc |-> "", out |-> x]

Raise(e) == [exc |-> e, out |-> ""]

\* the first exception of a sequence of exc fields, "" when none is raised
RECURSIVE FirstExc(_)
FirstExc(es) ==
    IF Len(es) = 0 THEN ""
    ELSE IF es[1] # "" THEN es[1]
    ELSE FirstExc(Tail(es))

\* a faulty variant of Subscript that reads a missing key as the empty str:
\* x.get(k, "")
Subscript_get_default(x, k) ==
    IF ~isinstance(x, "dict") THEN Raise("TypeError")
    ELSE IF ~HasKey(x, k) THEN Ok(Str(""))
    ELSE Ok(Get(x, k))

\* x[k] for a str key k: KeyError when the map x lacks k, TypeError when x is
\* no map (a str, a list, an int or None cannot be indexed by a str)
Subscript(x, k) ==
    IF ~isinstance(x, "dict") THEN Raise("TypeError")
    ELSE IF ~HasKey(x, k) THEN Raise("KeyError")
    ELSE Ok(Get(x, k))

\* x.get(k, default) of a map x
GetOr(x, k, default) == IF HasKey(x, k) THEN Get(x, k) ELSE default

\* for item in x: the items of a list, the characters of a str, the keys of a
\* map; TypeError for an int or None
Iterate(x) ==
    CASE x.t = "list" -> Ok(x.v)
      [] x.t = "str" -> Ok([i \in 1..Len(x.v) |-> Str(SubSeq(x.v, i, i))])
      [] x.t = "dict" -> Ok([i \in 1..Len(x.v) |-> Str(x.v[i][1])])
      [] OTHER -> Raise("TypeError")

\* the concatenation of a sequence of strs
RECURSIVE Concat(_)
Concat(xs) == IF Len(xs) = 0 THEN "" ELSE xs[1] \o Concat(Tail(xs))

\* a faulty variant of Accumulate whose loop misses the last item
Accumulate_skip_last(rs) ==
    LET e == FirstExc([i \in 1..Len(rs) |-> rs[i].exc])
    IN  IF e # "" THEN Raise(e) ELSE Ok(Concat([i \in 1..(Len(rs) - 1) |-> rs[i].out]))

\* a loop that appends one fragment per item: rs is the sequence of the
\* [exc, out] the body gives per item; the first exception ends the loop
Accumulate(rs) ==
    LET e == FirstExc([i \in 1..Len(rs) |-> rs[i].exc])
    IN  IF e # "" THEN Raise(e) ELSE Ok(Concat([i \in 1..Len(rs) |-> rs[i].out]))

----------------------------------------------------------------------------
(* validate_data: the warnings logged, in order *)

\* a faulty variant of KNOWN_ROOT_FIELDS that lacks certifications
KNOWN_ROOT_FIELDS_no_certifications ==
    {"name", "contact", "education", "experience", "projects", "skills",
     "achievements", "publications"}

KNOWN_ROOT_FIELDS ==
    {"name", "contact", "education", "experience", "projects", "skills",
     "achievements", "publications", "certifications"}

KNOWN_CONTACT_FIELDS == {"phone", "email", "linkedin", "github"}

KNOWN_EDUCATION_FIELDS == {"school", "location", "degree", "dates"}

KNOWN_EXPERIENCE_FIELDS == {"company", "role", "location", "dates", "description", "bullets"}

KNOWN_PROJECT_FIELDS == {"name", "technologies", "date", "link", "description", "bullets"}

KNOWN_SKILLS_FIELDS == {"category", "list"}

\* the warnings of one loop over the keys ks: one per key outside known
RECURSIVE UnknownFieldWarnings(_, _, _)
UnknownFieldWarnings(ks, known, where) ==
    IF Len(ks) = 0 THEN <<>>
    ELSE (IF ks[1] \notin known
          THEN <<"Unknown field '" \o ks[1] \o "' " \o where>>
          ELSE <<>>) \o UnknownFieldWarnings(Tail(ks), known, where)

\* the concatenation of a sequence of sequences
RECURSIVE Flatten(_)
Flatten(xs) == IF Len(xs) = 0 THEN <<>> ELSE xs[1] \o Flatten(Tail(xs))

validate_root_fields(d) == UnknownFieldWarnings(Keys(d), KNOWN_ROOT_FIELDS, "at root level")

validate_contact_fields(contact_data) ==
    UnknownFieldWarnings(Keys(contact_data), KNOWN_CONTACT_FIELDS, "in contact section")

validate_list_entries(entries, known_fields, section_name) ==
    Flatten([i \in 1..Len(entries.v) |->
        IF isinstance(entries.v[i], "dict")
        THEN UnknownFieldWarnings(Keys(entries.v[i]), known_fields,
                                  "in " \o section_name \o " entry")
        ELSE <<>>])

\* a faulty variant of ValidateStringOrDict that counts the entries from one
ValidateStringOrDict_index_from_one(d, key, known_fields, singular, Capital) ==
    IF HasKey(d, key) /\ isinstance(Get(d, key), "list")
    THEN LET xs == Get(d, key).v
         IN  Flatten([i \in 1..Len(xs) |->
                IF isinstance(xs[i], "dict")
                THEN UnknownFieldWarnings(Keys(xs[i]), known_fields,
                                          "in " \o singular \o " entry")
                ELSE IF ~isinstance(xs[i], "str")
                THEN <<Capital \o " at index " \o ToString(i)
                        \o " should be a string or dict">>
                ELSE <<>>])
    ELSE <<>>

\* _validate_achievements and _validate_publications: a map entry is checked
\* against the old format's fields, any other non-str entry is warned about
ValidateStringOrDict(d, key, known_fields, singular, Capital) ==
    IF HasKey(d, key) /\ isinstance(Get(d, key), "list")
    THEN LET xs == Get(d, key).v
         IN  Flatten([i \in 1..Len(xs) |->
                IF isinstance(xs[i], "dict")
                THEN UnknownFieldWarnings(Keys(xs[i]), known_fields,
                                          "in " \o singular \o " entry")
                ELSE IF ~isinstance(xs[i], "str")
                THEN <<Capital \o " at index " \o ToString(i - 1)
                        \o " should be a string or dict">>
                ELSE <<>>])
    ELSE <<>>

_validate_achievements(d) ==
    ValidateStringOrDict(d, "achievements",
        {"title", "issuer", "date", "description", "bullets"}, "achievement", "Achievement")

_validate_publications(d) ==
    ValidateStringOrDict(d, "publications",
        {"title", "authors", "journal", "date", "link", "bullets"}, "publication", "Publication")

_validate_certifications(d) ==
    IF HasKey(d, "certifications") /\ isinstance(Get(d, "certifications"), "list")
    THEN LET xs == Get(d, "certifications").v
         IN  Flatten([i \in 1..Len(xs) |->
                IF ~isinstance(xs[i], "str")
                THEN <<"Certification at index " \o ToString(i - 1) \o " should be a string">>
                ELSE <<>>])
    ELSE <<>>

\* the list section key of d checked by validate_list_entries, when it is a list
ValidateSection(d, key, known_fields, section_name) ==
    IF HasKey(d, key) /\ isinstance(Get(d, key), "list")
    THEN validate_list_entries(Get(d, key), known_fields, section_name)
    ELSE <<>>

validate_data(d) ==
    validate_root_fields(d)
    \o (IF HasKey(d, "contact") /\ isinstance(Get(d, "contact"), "dict")
        THEN validate_contact_fields(Get(d, "contact")) ELSE <<>>)
    \o ValidateSection(d, "education", KNOWN_EDUCATION_FIELDS, "education")
    \o ValidateSection(d, "experience", KNOWN_EXPERIENCE_FIELDS, "experience")
    \o ValidateSection(d, "projects", KNOWN_PROJECT_FIELDS, "project")
    \o ValidateSection(d, "skills", KNOWN_SKILLS_FIELDS, "skills")
    \o _validate_achievements(d)
    \o _validate_publications(d)
    \o _validate_certifications(d)

----------------------------------------------------------------------------
(* The section builders *)

\* a faulty variant of EducationEntry that also renders the unknown key gpa
EducationEntry_with_gpa(edu) ==
    LET school == Subscript(edu, "school")
        location == Subscript(edu, "location")
        degree == Subscript(edu, "degree")
        dates == Subscript(edu, "dates")
        e == FirstExc(<<school.exc, location.exc, degree.exc, dates.exc>>)
    IN  IF e # "" THEN Raise(e)
        ELSE Ok("\\resumeSubheading\n"
                \o "  {" \o escape_latex(school.out) \o "}{" \o escape_latex(location.out) \o "}\n"
                \o "  {" \o escape_latex(degree.out) \o "}{" \o escape_latex(dates.out) \o "}\n"
                \o (IF HasKey(edu, "gpa") THEN escape_latex(Get(edu, "gpa")) ELSE ""))

\* the body of the education loop for one entry
EducationEntry(edu) ==
    LET school == Subscript(edu, "school")
        location == Subscript(edu, "location")
        degree == Subscript(edu, "degree")
        dates == Subscript(edu, "dates")
        e == FirstExc(<<school.exc, location.exc, degree.exc, dates.exc>>)
    IN  IF e # "" THEN Raise(e)
        ELSE Ok("\\resumeSubheading\n"
                \o "  {" \o escape_latex(school.out) \o "}{" \o escape_latex(location.out) \o "}\n"
                \o "  {" \o escape_latex(degree.out) \o "}{" \o escape_latex(dates.out) \o "}\n")

\* a faulty variant of SectionEntries that reads a missing section as empty:
\* data.get(key, [])
SectionEntries_get_default(d, key) ==
    IF ~isinstance(d, "dict") THEN Raise("TypeError")
    ELSE Iterate(GetOr(d, key, List(<<>>)))

\* what a builder's loop "for entry in data[key]" runs over
SectionEntries(d, key) ==
    LET section == Subscript(d, key)
    IN  IF section.exc # "" THEN section ELSE Iterate(section.out)

_build_education_section(d) ==
    LET entries == SectionEntries(d, "education")
    IN  IF entries.exc # "" THEN entries
        ELSE Accumulate([i \in 1..Len(entries.out) |-> EducationEntry(entries.out[i])])

\* a faulty variant of BulletList that does not read the key bullets
BulletList_description_only(entry) ==
    LET descriptions == Iterate(GetOr(entry, "description", List(<<>>)))
    IN  IF descriptions.exc # "" THEN descriptions
        ELSE Ok(Concat([i \in 1..Len(descriptions.out) |->
                    "    \\resumeItem{" \o escape_latex(descriptions.out[i]) \o "}\n"]))

\* a faulty variant of BulletList that falls back to bullets when description
\* is empty: entry.get("description") or entry.get("bullets", [])
BulletList_description_if_truthy(entry) ==
    LET descriptions == Iterate(IF HasKey(entry, "description") /\ Truthy(Get(entry, "description"))
                                THEN Get(entry, "description")
                                ELSE GetOr(entry, "bullets", List(<<>>)))
    IN  IF descriptions.exc # "" THEN descriptions
        ELSE Ok(Concat([i \in 1..Len(descriptions.out) |->
                    "    \\resumeItem{" \o escape_latex(descriptions.out[i]) \o "}\n"]))

\* the bullets of an experience or project entry:
\* entry.get("description", entry.get("bullets", [])), one \resumeItem each
BulletList(entry) ==
    LET descriptions == Iterate(GetOr(entry, "description", GetOr(entry, "bullets", List(<<>>))))
    IN  IF descriptions.exc # "" THEN descriptions
        ELSE Ok(Concat([i \in 1..Len(descriptions.out) |->
                    "    \\resumeItem{" \o escape_latex(descriptions.out[i]) \o "}\n"]))

\* the body of the experience loop for one entry
ExperienceEntry(exp) ==
    LET role == Subscript(exp, "role")
        dates == Subscript(exp, "dates")
        company == Subscript(exp, "company")
        location == Subscript(exp, "location")
        e == FirstExc(<<role.exc, dates.exc, company.exc, location.exc>>)
    IN  IF e # "" THEN Raise(e)
        ELSE LET bullets == BulletList(exp)
             IN  IF bullets.exc # "" THEN bullets
                 ELSE Ok("\\resumeSubheading\n"
                         \o "  {" \o escape_latex(role.out) \o "}{" \o escape_latex(dates.out) \o "}\n"
                         \o "  {" \o escape_latex(company.out) \o "}{"
                                  \o escape_latex(location.out) \o "}\n"
                         \o "  \\resumeItemListStart\n"
                         \o bullets.out
                         \o "  \\resumeItemListEnd\n")

_build_experience_section(d) ==
    LET entries == SectionEntries(d, "experience")
    IN  IF entries.exc # "" THEN entries
        ELSE Accumulate([i \in 1..Len(entries.out) |-> ExperienceEntry(entries.out[i])])

\* key in project and project[key]
HasTruthy(x, key) == HasKey(x, key) /\ Truthy(Get(x, key))

\* a faulty variant of ProjectEntry in which a truthy link wins over technologies
ProjectEntry_link_first(project) ==
    LET name == Subscript(project, "name")
    IN  IF name.exc # "" THEN name
        ELSE LET title == "{\\textbf{" \o escape_latex(name.out) \o "}"
                 emph == IF HasTruthy(project, "link")
                         THEN " $|$ \\emph{" \o escape_latex(Get(project, "link")) \o "}"
                         ELSE IF HasTruthy(project, "technologies")
                         THEN " $|$ \\emph{" \o escape_latex(Get(project, "technologies")) \o "}"
                         ELSE ""
                 date == IF HasTruthy(project, "date")
                         THEN "}{" \o escape_latex(Get(project, "date")) \o "}"
                         ELSE "}{}"
                 bullets == BulletList(project)
             IN  IF bullets.exc # "" THEN bullets
                 ELSE Ok("\\resumeProjectHeading\n"
                         \o "  " \o title \o emph \o date \o "\n"
                         \o "  \\resumeItemListStart\n"
                         \o bullets.out
                         \o "  \\resumeItemListEnd\n")

\* the body of the projects loop for one entry
ProjectEntry(project) ==
    LET name == Subscript(project, "name")
    IN  IF name.exc # "" THEN name
        ELSE LET title == "{\\textbf{" \o escape_latex(name.out) \o "}"
                 emph == IF HasTruthy(project, "technologies")
                         THEN " $|$ \\emph{" \o escape_latex(Get(project, "technologies")) \o "}"
                         ELSE IF HasTruthy(project, "link")
                         THEN " $|$ \\emph{" \o escape_latex(Get(project, "link")) \o "}"
                         ELSE ""
                 date == IF HasTruthy(project, "date")
                         THEN "}{" \o escape_latex(Get(project, "date")) \o "}"
                         ELSE "}{}"
                 bullets == BulletList(project)
             IN  IF bullets.exc # "" THEN bullets
                 ELSE Ok("\\resumeProjectHeading\n"
                         \o "  " \o title \o emph \o date \o "\n"
                         \o "  \\resumeItemListStart\n"
                         \o bullets.out
                         \o "  \\resumeItemListEnd\n")

_build_projects_section(d) ==
    LET entries == SectionEntries(d, "projects")
    IN  IF entries.exc # "" THEN entries
        ELSE Accumulate([i \in 1..Len(entries.out) |-> ProjectEntry(entries.out[i])])

\* ", ".join(x): TypeError unless x is iterable and every item is a str
JoinValue(sep, x) ==
    LET items == Iterate(x)
    IN  IF items.exc # "" THEN items
        ELSE IF \E i \in 1..Len(items.out) : ~isinstance(items.out[i], "str")
        THEN Raise("TypeError")
        ELSE Ok(Join(sep, [i \in 1..Len(items.out) |-> items.out[i].v]))

\* a faulty variant of SkillEntry that joins the items with "; "
SkillEntry_semicolon(skill) ==
    LET category == Subscript(skill, "category")
        list == Subscript(skill, "list")
        e == FirstExc(<<category.exc, list.exc>>)
    IN  IF e # "" THEN Raise(e)
        ELSE LET joined == JoinValue("; ", list.out)
             IN  IF joined.exc # "" THEN joined
                 ELSE Ok("\\textbf{" \o escape_latex(category.out) \o "}{: "
                         \o escape_latex(Str(joined.out)) \o "} \\\\\n")

\* the generator's expression for one skill
SkillEntry(skill) ==
    LET category == Subscript(skill, "category")
        list == Subscript(skill, "list")
        e == FirstExc(<<category.exc, list.exc>>)
    IN  IF e # "" THEN Raise(e)
        ELSE LET joined == JoinValue(", ", list.out)
             IN  IF joined.exc # "" THEN joined
                 ELSE Ok("\\textbf{" \o escape_latex(category.out) \o "}{: "
                         \o escape_latex(Str(joined.out)) \o "} \\\\\n")

_build_skills_section(d) ==
    LET entries == SectionEntries(d, "skills")
    IN  IF entries.exc # "" THEN entries
        ELSE Accumulate([i \in 1..Len(entries.out) |-> SkillEntry(entries.out[i])])

\* one optional piece of an old-format entry: key in x and x[key]
OptionalPiece(x, key, before, after) ==
    IF HasTruthy(x, key)
    THEN before \o escape_latex(Str(PyStr(Get(x, key)))) \o after
    ELSE ""

\* a faulty variant of _format_achievement_item that appends the issuer
\* whenever the key is present, truthy or not
_format_achievement_item_issuer_if_present(achievement) ==
    IF isinstance(achievement, "str")
    THEN "    \\resumeItem{" \o escape_latex(achievement) \o "}\n"
    ELSE IF isinstance(achievement, "dict")
    THEN "    \\resumeItem{"
         \o (IF HasKey(achievement, "title")
             THEN escape_latex(Str(PyStr(Get(achievement, "title")))) ELSE "")
         \o (IF HasKey(achievement, "issuer")
             THEN " at " \o escape_latex(Str(PyStr(Get(achievement, "issuer")))) ELSE "")
         \o OptionalPiece(achievement, "date", " (", ")")
         \o "}\n"
    ELSE ""

_format_achievement_item(achievement) ==
    IF isinstance(achievement, "str")
    THEN "    \\resumeItem{" \o escape_latex(achievement) \o "}\n"
    ELSE IF isinstance(achievement, "dict")
    THEN "    \\resumeItem{"
         \o (IF HasKey(achievement, "title")
             THEN escape_latex(Str(PyStr(Get(achievement, "title")))) ELSE "")
         \o OptionalPiece(achievement, "issuer", " at ", "")
         \o OptionalPiece(achievement, "date", " (", ")")
         \o "}\n"
    ELSE ""

\* The two backquotes that open the quoted title.  SANY cannot read a backquote
\* inside a string, so the character ?, which no input of the model holds and
\* which escape_latex leaves alone, stands for each of them.
OpenQuote == "??"

\* a faulty variant of _format_publication_item that leaves the title unquoted
_format_publication_item_unquoted(publication) ==
    IF isinstance(publication, "str")
    THEN "    \\resumeItem{" \o escape_latex(publication) \o "}\n"
    ELSE IF isinstance(publication, "dict")
    THEN "    \\resumeItem{"
         \o (IF HasKey(publication, "title")
             THEN escape_latex(Str(PyStr(Get(publication, "title")))) ELSE "")
         \o OptionalPiece(publication, "journal", " in ", "")
         \o OptionalPiece(publication, "date", " (", ")")
         \o "}\n"
    ELSE ""

_format_publication_item(publication) ==
    IF isinstance(publication, "str")
    THEN "    \\resumeItem{" \o escape_latex(publication) \o "}\n"
    ELSE IF isinstance(publication, "dict")
    THEN "    \\resumeItem{"
         \o (IF HasKey(publication, "title")
             THEN OpenQuote \o escape_latex(Str(PyStr(Get(publication, "title")))) \o "''"
             ELSE "")
         \o OptionalPiece(publication, "journal", " in ", "")
         \o OptionalPiece(publication, "date", " (", ")")
         \o "}\n"
    ELSE ""

\* a faulty variant of _format_certification_item that yields no line for an
\* entry that is neither a str nor a map
_format_certification_item_skip_invalid(certification) ==
    IF isinstance(certification, "str") \/ isinstance(certification, "dict")
    THEN "    \\resumeItem{" \o escape_latex(certification) \o "}\n"
    ELSE ""

_format_certification_item(certification) ==
    "    \\resumeItem{" \o escape_latex(certification) \o "}\n"

\* a faulty variant of CompoundEntries whose loop misses the first entry
CompoundEntries_skip_first(d, key) ==
    IF ~HasTruthy(d, key) THEN Ok(<<>>)
    ELSE LET items == Iterate(Get(d, key))
         IN  IF items.exc # "" THEN items ELSE Ok(Tail(items.out))

\* what the loop over one of the three lists runs over: nothing unless
\* has_<key> holds (key in data and data[key])
CompoundEntries(d, key) ==
    IF ~HasTruthy(d, key) THEN Ok(<<>>) ELSE Iterate(Get(d, key))

\* a faulty variant of _build_achievements_publications_section that appends
\* the publications before the achievements
_build_achievements_publications_section_publications_first(d) ==
    IF ~HasTruthy(d, "achievements") /\ ~HasTruthy(d, "publications")
       /\ ~HasTruthy(d, "certifications")
    THEN Ok("")
    ELSE LET achievements == CompoundEntries(d, "achievements")
             publications == CompoundEntries(d, "publications")
             certifications == CompoundEntries(d, "certifications")
             e == FirstExc(<<achievements.exc, publications.exc, certifications.exc>>)
         IN  IF e # "" THEN Raise(e)
             ELSE Ok("\\resumeItemListStart\n"
                     \o Concat([i \in 1..Len(publications.out) |->
                                _format_publication_item(publications.out[i])])
                     \o Concat([i \in 1..Len(achievements.out) |->
                                _format_achievement_item(achievements.out[i])])
                     \o Concat([i \in 1..Len(certifications.out) |->
                                _format_certification_item(certifications.out[i])])
                     \o "  \\resumeItemListEnd\n")

_build_achievements_publications_section(d) ==
    IF ~HasTruthy(d, "achievements") /\ ~HasTruthy(d, "publications")
       /\ ~HasTruthy(d, "certifications")
    THEN Ok("")
    ELSE LET achievements == CompoundEntries(d, "achievements")
             publications == CompoundEntries(d, "publications")
             certifications == CompoundEntries(d, "certifications")
             e == FirstExc(<<achievements.exc, publications.exc, certifications.exc>>)
         IN  IF e # "" THEN Raise(e)
             ELSE Ok("\\resumeItemListStart\n"
                     \o Concat([i \in 1..Len(achievements.out) |->
                                _format_achievement_item(achievements.out[i])])
                     \o Concat([i \in 1..Len(publications.out) |->
                                _format_publication_item(publications.out[i])])
                     \o Concat([i \in 1..Len(certifications.out) |->
                                _format_certification_item(certifications.out[i])])
                     \o "  \\resumeItemListEnd\n")

----------------------------------------------------------------------------
(* render_template *)

section_start == "%-----------Achievements / Publications / Certifications-----------"

section_end == "%-------------------------------------------"

\* a faulty variant of Excise that keeps the character after the end marker
Excise_keep_trailing_character(content) ==
    LET start_pos == PyFind(content, section_start, 0)
        end_pos == PyFind(content, section_end, start_pos) + Len(section_end)
    IN  IF start_pos # -1 /\ end_pos # -1
        THEN SliceTo(content, start_pos) \o SliceFrom(content, end_pos)
        ELSE content

\* the removal of the compound section's region from the substituted template
Excise(content) ==
    LET start_pos == PyFind(content, section_start, 0)
        end_pos == PyFind(content, section_end, start_pos) + Len(section_end)
    IN  IF start_pos # -1 /\ end_pos # -1
        THEN SliceTo(content, start_pos) \o SliceFrom(content, end_pos + 1)
        ELSE content

\* what a call leaves: the exception raised or the document returned, and the
\* compound fragment when the call got as far as building it
Raised(e) == [exc |-> e, doc |-> "", apc |-> ""]

\* render_template after validate_data, on the template text tpl.  The header
\* fields are read and substituted first, then each section is built and
\* substituted in turn; the first exception in that order ends the call.
render_template(d, tpl) ==
    LET name == Subscript(d, "name")
        contact == Subscript(d, "contact")
        Field(k) == IF contact.exc # "" THEN contact ELSE Subscript(contact.out, k)
        e1 == FirstExc(<<name.exc, Field("phone").exc, Field("email").exc,
                         Field("linkedin").exc, Field("github").exc>>)
    IN  IF e1 # "" THEN Raised(e1)
        ELSE
        LET education == _build_education_section(d)
            experience == _build_experience_section(d)
            projects == _build_projects_section(d)
            skills == _build_skills_section(d)
            content == _build_achievements_publications_section(d)
            e2 == FirstExc(<<education.exc, experience.exc, projects.exc, skills.exc,
                             content.exc>>)
        IN  IF e2 # "" THEN Raised(e2)
            ELSE
            LET template_content ==
                    ReplaceEach(tpl,
                        << <<"{{name}}", escape_latex(name.out)>>,
                           <<"{{phone}}", escape_latex(Field("phone").out)>>,
                           <<"{{email}}", escape_latex(Field("email").out)>>,
                           <<"{{linkedin}}", escape_latex(Field("linkedin").out)>>,
                           <<"{{github}}", escape_latex(Field("github").out)>>,
                           <<"{{education}}", education.out>>,
                           <<"{{experience}}", experience.out>>,
                           <<"{{projects}}", projects.out>>,
                           <<"{{skills}}", skills.out>> >>)
            IN  [exc |-> "",
                 doc |-> IF content.out = ""
                         THEN Excise(template_content)
                         ELSE Replace(template_content, "{{achievements_publications}}",
                                      content.out),
                 apc |-> content.out]

----------------------------------------------------------------------------
(* resume.tex.template: the bundled template is read as text.  The model    *)
(* renders templates of its layout: the five header placeholders, the four   *)
(* section placeholders, then the compound section's region between the two  *)
(* boundary markers.                                                         *)

TemplateHead ==
    "\\begin{document}\n{{name}}\n{{phone}} {{email}} {{linkedin}} {{github}}\n"
    \o "\\section{Education}\n{{education}}"
    \o "\\section{Experience}\n{{experience}}"
    \o "\\section{Projects}\n{{projects}}"
    \o "\\section{Skills}\n{{skills}}\n"

TemplateRegion ==
    section_start \o "\n\\section{Achievements}\n  {{achievements_publications}}\n\n"
    \o section_end \o "\n"

TemplateTail == "\\end{document}\n"

\* the layout as it stands
StandardTemplate == TemplateHead \o TemplateRegion \o TemplateTail

\* the same with a rule line, equal to the end marker, before the header
RuledTemplate == section_end \o "\n" \o TemplateHead \o TemplateRegion \o TemplateTail

Templates == {StandardTemplate, RuledTemplate}

\* the text between the two markers
RegionBody == "\n\\section{Achievements}\n  {{achievements_publications}}\n\n"

\* the layout without the start marker, and without the end marker
NoStartTemplate == TemplateHead \o RegionBody \o section_end \o "\n" \o TemplateTail

NoEndTemplate == TemplateHead \o section_start \o RegionBody \o TemplateTail

MarkerlessTemplates == {NoStartTemplate, NoEndTemplate}

----------------------------------------------------------------------------
(* The inputs of escape_latex *)

MaxLen == 3

\* an ordinary character and the ten reserved ones
Chars == {"a", "\\", "&", "%", "$", "#", "_", "{", "}", "~", "^"}

Reserved == Chars \ {"a"}

RECURSIVE Strings(_)
Strings(n) ==
    IF n = 0 THEN {""}
    ELSE LET P == Strings(n - 1) IN P \cup {s \o c : s \in P, c \in Chars}

NonStrings ==
    { PyInt(123), PyInt(0), PyInt(-7), None, List(<<>>), Dict(<<>>),
      List(<<PyInt(1), Str("a_b")>>), List(<<Str("\\")>>),
      Dict(<< <<"name", Str("A & B")>> >>),
      Dict(<< <<"name", Str("a")>>, <<"link", None>> >>) }

EscapeInputs == {Str(s) : s \in Strings(MaxLen)} \cup NonStrings

----------------------------------------------------------------------------
(* The inputs of render_template *)

MaxItems == 2

\* a key that the map does not have
Absent == [t |-> "absent", v |-> 0]

Opt(key, x) == IF x = Absent THEN <<>> ELSE << <<key, x>> >>

Root(name, contact, education, experience, projects, skills, achievements, publications, certifications) ==
    Dict(Opt("name", name) \o Opt("contact", contact) \o Opt("education", education)
         \o Opt("experience", experience) \o Opt("projects", projects)
         \o Opt("skills", skills) \o Opt("achievements", achievements)
         \o Opt("publications", publications) \o Opt("certifications", certifications))

FullContact ==
    Dict(<< <<"phone", Str("555-0100")>>, <<"email", Str("j@x.com")>>,
            <<"linkedin", Str("jane")>>, <<"github", Str("jane_d")>> >>)

\* the map d without its key k
Without(d, k) == Dict(SelectSeq(d.v, LAMBDA p : p[1] # k))

ContactOptions ==
    {Absent, FullContact} \cup {Without(FullContact, k) : k \in KNOWN_CONTACT_FIELDS}

EmptyList == List(<<>>)

\* the lists of at most n strs drawn from items
StrLists(items, n) ==
    UNION {{List([i \in 1..k |-> Str(f[i])]) : f \in [1..k -> items]} : k \in 0..n}

\* roots that differ in the keys they have
RequiredInputs ==
    {Root(name, contact, education, experience, projects, skills, Absent, Absent, Absent) :
        name \in {Absent, Str("Jane Doe")}, contact \in ContactOptions,
        education \in {Absent, EmptyList}, experience \in {Absent, EmptyList},
        projects \in {Absent, EmptyList}, skills \in {Absent, EmptyList}}

AchievementOptions == {Absent} \cup StrLists({"a", "a&"}, MaxItems)

PublicationOptions == {Absent} \cup StrLists({"p_"}, MaxItems)

CertificationMaps ==
    { Dict(<< <<"name", Str("A & B")>> >>),
      Dict(<< <<"name", Str("A & B")>>, <<"link", Str("http://x.org/c")>> >>) }

CertificationOptions ==
    {Absent} \cup StrLists({"c%"}, MaxItems) \cup {List(<<m>>) : m \in CertificationMaps}

\* roots that differ in the three lists of the compound section
CompoundInputs ==
    {Root(Str("Jane Doe"), FullContact, EmptyList, EmptyList, EmptyList, EmptyList,
          achievements, publications, certifications) :
        achievements \in AchievementOptions, publications \in PublicationOptions,
        certifications \in CertificationOptions}

OneEducation ==
    List(<< Dict(<< <<"school", Str("X U")>>, <<"location", Str("Y")>>,
                    <<"degree", Str("BS")>>, <<"dates", Str("2019-2023")>> >>) >>)

OneExperience ==
    List(<< Dict(<< <<"company", Str("A & B")>>, <<"role", Str("Dev_1")>>,
                    <<"location", Str("Y")>>, <<"dates", Str("2020")>>,
                    <<"description", List(<<Str("b #1"), Str("{{skills}}")>>)>> >>) >>)

OneProject ==
    List(<< Dict(<< <<"name", Str("P^2")>>, <<"technologies", Str("T~")>>,
                    <<"date", Str("2021")>>, <<"bullets", List(<<Str("x")>>)>> >>) >>)

OneSkill ==
    List(<< Dict(<< <<"category", Str("Lang_s")>>,
                    <<"list", List(<<Str("C#"), Str("a, b")>>)>> >>) >>)

\* names with reserved characters, with a placeholder's text and with the
\* text of the boundary markers
NameValues ==
    { Str("Jane Doe"), Str("A & B"), Str("\\"), Str("{{email}}"),
      Str(section_start), Str(section_start \o section_end) }

\* roots that differ in the name and in whether the sections have entries
FieldInputs ==
    {Root(name, FullContact, sections[1], sections[2], sections[3], sections[4],
          achievements, Absent, Absent) :
        name \in NameValues,
        sections \in { <<EmptyList, EmptyList, EmptyList, EmptyList>>,
                       <<OneEducation, OneExperience, OneProject, OneSkill>> },
        achievements \in {Absent, List(<<Str("a&")>>)}}

\* a root with name and a complete contact
Resume(education, experience, projects, skills, achievements, publications, certifications) ==
    Root(Str("Jane Doe"), FullContact, education, experience, projects, skills,
         achievements, publications, certifications)

\* a root whose four sections are empty
Compound(achievements, publications, certifications) ==
    Resume(EmptyList, EmptyList, EmptyList, EmptyList, achievements, publications, certifications)

\* achievements in the old format: a map with title, issuer and date, each
\* present or not, the optional ones also with a falsy value
AchievementMaps ==
    {Dict(Opt("title", title) \o Opt("issuer", issuer) \o Opt("date", date)) :
        title \in {Absent, Str("A & B")},
        issuer \in {Absent, Str(""), Str("B_c")},
        date \in {Absent, PyInt(0), Str("C#")}}
    \cup {Dict(<< <<"title", Str("A")>>, <<"issuer", Str("B")>>, <<"date", Str("C")>> >>)}

\* publications in the old format
PublicationMaps ==
    {Dict(Opt("title", title) \o Opt("journal", journal) \o Opt("date", date)) :
        title \in {Absent, Str("T & U")},
        journal \in {Absent, Str(""), Str("J_k")},
        date \in {Absent, PyInt(0), Str("2020#")}}

\* entries that are neither a str nor a map
OddEntries == {PyInt(7), None, List(<<Str("x_y")>>)}

\* a list with one odd entry, alone, before or after a str entry
OddLists == UNION {{List(<<odd>>), List(<<odd, Str("s&")>>), List(<<Str("s&"), odd>>)} : odd \in OddEntries}

\* certifications given as maps, the link truthy, empty or absent
LinkedCertifications ==
    { Dict(<< <<"name", Str("Cert")>>, <<"link", Str("http://x.org/c")>> >>),
      Dict(<< <<"name", Str("Cert")>>, <<"link", Str("")>> >>),
      Dict(<< <<"name", Str("Cert")>> >>) }

\* roots that differ in the shape of the entries of the three lists
ShapeInputs ==
    {Compound(List(<<m>>), Absent, Absent) : m \in AchievementMaps}
    \cup {Compound(Absent, List(<<m>>), Absent) : m \in PublicationMaps}
    \cup {Compound(Absent, Absent, List(<<m>>)) : m \in LinkedCertifications}
    \cup {Compound(xs, Absent, Absent) : xs \in OddLists}
    \cup {Compound(Absent, xs, Absent) : xs \in OddLists}
    \cup {Compound(Absent, Absent, xs) : xs \in OddLists}

\* the map d with its keys in the reverse order
Reversed(d) == Dict([i \in 1..Len(d.v) |-> d.v[Len(d.v) + 1 - i]])

\* the three lists, each with entries of its own, in another key order
MixedCompound ==
    Compound(List(<<Str("a1"), Dict(<< <<"title", Str("a2")>> >>)>>),
             List(<<Str("p1"), Str("p2")>>),
             List(<<Str("c1"), PyInt(7)>>))

\* roots whose keys come in the reverse order, the three lists first
KeyOrderInputs ==
    {Reversed(MixedCompound), MixedCompound,
     Reversed(Compound(List(<<Str("a1")>>), Absent, List(<<Str("c1")>>))),
     Reversed(Compound(Absent, List(<<Str("p1")>>), List(<<Str("c1")>>)))}

\* the bullets an experience or project entry carries under description and
\* under bullets
DescriptionOptions == {Absent} \cup StrLists({"d_"}, MaxItems)

BulletsOptions == {Absent, EmptyList, List(<<Str("b&")>>), List(<<Str("d_")>>)}

ExperienceEntries ==
    {Dict(<< <<"company", Str("Co")>>, <<"role", Str("Dev")>>, <<"location", Str("Y")>>,
             <<"dates", Str("2020")>> >> \o Opt("description", description)
          \o Opt("bullets", bullets)) :
        description \in DescriptionOptions, bullets \in BulletsOptions}

\* projects that differ in technologies, link and date, each absent, empty
\* or set
ProjectTitles ==
    {Dict(<< <<"name", Str("P^2")>> >> \o Opt("technologies", technologies)
          \o Opt("link", link) \o Opt("date", date)) :
        technologies \in {Absent, Str(""), Str("T~")},
        link \in {Absent, Str(""), Str("http://l_x")},
        date \in {Absent, Str(""), Str("2021#")}}

\* projects that differ in the bullets they carry
ProjectBullets ==
    {Dict(<< <<"name", Str("P^2")>> >> \o Opt("description", description)
          \o Opt("bullets", bullets)) :
        description \in DescriptionOptions, bullets \in BulletsOptions}

\* skills whose list items hold the separator and reserved characters
SkillLists ==
    { List(<<>>), List(<<Str("a, b")>>), List(<<Str("a"), Str("b")>>),
      List(<<Str("C#"), Str("x_y")>>), List(<<Str("a"), Str("b, c")>>),
      List(<<Str("a, b"), Str("c")>>) }

SkillEntries ==
    {Dict(<< <<"category", Str("Lang_s")>>, <<"list", list>> >>) : list \in SkillLists}

\* roots that differ in the one entry of experience, projects or skills
EntryInputs ==
    {Resume(EmptyList, List(<<e>>), EmptyList, EmptyList, Absent, Absent, Absent) :
        e \in ExperienceEntries}
    \cup {Resume(EmptyList, EmptyList, List(<<e>>), EmptyList, Absent, Absent, Absent) :
        e \in ProjectTitles \cup ProjectBullets}
    \cup {Resume(EmptyList, EmptyList, EmptyList, List(<<e>>), Absent, Absent, Absent) :
        e \in SkillEntries}
    \cup {Resume(EmptyList, EmptyList, EmptyList,
                 List(<<CHOOSE e \in SkillEntries : e.v[2][2] = List(<<Str("a, b")>>),
                        CHOOSE e \in SkillEntries : e.v[2][2] = List(<<Str("C#"), Str("x_y")>>)>>),
                 Absent, Absent, Absent)}

\* skill entries whose list holds items that are not strs
ScalarSkillInputs ==
    {Resume(EmptyList, EmptyList, EmptyList,
            List(<<Dict(<< <<"category", Str("Years")>>, <<"list", list>> >>)>>),
            Absent, Absent, Absent) :
        list \in {List(<<PyInt(1), PyInt(2)>>), List(<<Str("a"), PyInt(3)>>)}}

\* the places where a key outside the allow-lists can stand
ExtraPlaces == {"root", "contact", "education", "experience", "projects", "skills"}

\* a pair with an unknown key, present when place is among places
Extra(places, place, key) ==
    IF place \in places THEN << <<key, Str("x {{name}}")>> >> ELSE <<>>

\* the map x with more pairs appended
Plus(x, pairs) == Dict(x.v \o pairs)

\* the only entry of a one-entry list, with more pairs appended
OnePlus(xs, pairs) == List(<<Plus(xs.v[1], pairs)>>)

\* a complete root with unknown keys at the given places
WithExtras(places) ==
    Plus(Root(Str("Jane Doe"), Plus(FullContact, Extra(places, "contact", "twitter")),
              OnePlus(OneEducation, Extra(places, "education", "gpa")),
              OnePlus(OneExperience, Extra(places, "experience", "team")),
              OnePlus(OneProject, Extra(places, "projects", "stars")),
              OnePlus(OneSkill, Extra(places, "skills", "level")),
              List(<<Str("a&")>>), Absent, List(<<Str("c%")>>)),
         Extra(places, "root", "summary"))

\* roots with no unknown key, with one, with two and with one at every place
ExtraKeyInputs ==
    {WithExtras(places) :
        places \in {{}, ExtraPlaces, {"root", "education"}} \cup {{place} : place \in ExtraPlaces}}

\* two entries of each list section, with bullets of different numbers
EducationPair ==
    << OneEducation.v[1],
       Dict(<< <<"school", Str("Z&")>>, <<"location", Str("W")>>,
               <<"degree", Str("MS")>>, <<"dates", Str("2024")>> >>) >>

ExperiencePair ==
    << Dict(<< <<"company", Str("Co1")>>, <<"role", Str("R1")>>, <<"location", Str("Y")>>,
               <<"dates", Str("2020")>>, <<"description", List(<<Str("e1"), Str("e2")>>)>> >>),
       Dict(<< <<"company", Str("Co2")>>, <<"role", Str("R2")>>, <<"location", Str("Y")>>,
               <<"dates", Str("2021")>>, <<"bullets", List(<<Str("e3")>>)>> >>) >>

ProjectPair ==
    << Dict(<< <<"name", Str("P1")>>, <<"description", List(<<Str("p1")>>)>> >>),
       Dict(<< <<"name", Str("P2")>>, <<"date", Str("2022")>> >>) >>

\* the lists of at most n entries drawn from the pair
EntryLists(pair, n) ==
    UNION {{List([i \in 1..k |-> pair[f[i]]]) : f \in [1..k -> 1..2]} : k \in 0..n}

\* roots with up to MaxItems entries in one of education, experience, projects
RepeatedInputs ==
    {Resume(xs, EmptyList, EmptyList, EmptyList, Absent, Absent, Absent) :
        xs \in EntryLists(EducationPair, MaxItems)}
    \cup {Resume(EmptyList, xs, EmptyList, EmptyList, Absent, Absent, Absent) :
        xs \in EntryLists(ExperiencePair, MaxItems)}
    \cup {Resume(EmptyList, EmptyList, xs, EmptyList, Absent, Absent, Absent) :
        xs \in EntryLists(ProjectPair, MaxItems)}

RootInputs ==
    RequiredInputs \cup CompoundInputs \cup FieldInputs \cup ShapeInputs \cup KeyOrderInputs
    \cup EntryInputs \cup ScalarSkillInputs \cup ExtraKeyInputs \cup RepeatedInputs

NoData == Dict(<<>>)

NoResult == [exc |-> "", doc |-> ""]

EscapeInit ==
    /\ pc = "ready"
    /\ value \in EscapeInputs
    /\ escaped = ""
    /\ data = NoData
    /\ template = ""
    /\ result = NoResult
    /\ apc = ""
    /\ log = <<>>

EscapeLatex ==
    /\ pc = "ready"
    /\ escaped' = escape_latex(value)
    /\ pc' = "done"
    /\ UNCHANGED <<value, data, template, result, apc, log>>

EscapeNext == EscapeLatex

EscapeSpec == EscapeInit /\ [][EscapeNext]_vars

----------------------------------------------------------------------------
(* The specification of a call of render_template *)

Init ==
    /\ pc = "ready"
    /\ value = None
    /\ escaped = ""
    /\ \/ data \in RootInputs /\ template \in Templates
       \/ data \in FieldInputs /\ template \in MarkerlessTemplates
    /\ result = NoResult
    /\ apc = ""
    /\ log = <<>>

\* validate_data logs its warnings, then the template is filled
RenderTemplate ==
    /\ pc = "ready"
    /\ log' = validate_data(data)
    /\ LET r == render_template(data, template)
       IN  /\ result' = [exc |-> r.exc, doc |-> r.doc]
           /\ apc' = r.apc
    /\ pc' = "done"
    /\ UNCHANGED <<value, escaped, data, template>>

Next == RenderTemplate

Spec == Init /\ [][Next]_vars

----------------------------------------------------------------------------
(* Properties of escape_latex, checked under EscapeSpec *)

StrInput == pc = "done" /\ isinstance(value, "str")

NonStrInput == pc = "done" /\ ~isinstance(value, "str")

\* the character at position i (from 1) of s
CharAt(s, i) == SubSeq(s, i, i)

\* the number of (possibly overlapping) occurrences of sub in s
CountOcc(s, sub) ==
    Cardinality({i \in 1..(Len(s) - Len(sub) + 1) : SubSeq(s, i, i + Len(sub) - 1) = sub})

\* the table's substitute for one character, the character itself when it has none
Substitute(c) ==
    IF \E k \in 1..Len(latex_special_chars) : latex_special_chars[k][1] = c
    THEN latex_special_chars[CHOOSE k \in 1..Len(latex_special_chars) :
                                latex_special_chars[k][1] = c][2]
    ELSE c

\* one left-to-right pass: each character's substitute, concatenated
RECURSIVE SinglePass(_)
SinglePass(s) ==
    IF s = "" THEN "" ELSE Substitute(CharAt(s, 1)) \o SinglePass(SubSeq(s, 2, Len(s)))

\* C2: for every string input escape_latex returns the result of a single
\* left-to-right pass, each reserved character replaced by its substitute and
\* every other character copied; inserted characters are never rewritten.
C2_SinglePass == StrInput => escaped = SinglePass(value.v)

PrecededByBackslash(s, i) == i > 1 /\ CharAt(s, i - 1) = "\\"

CommandNames == {"\\textbackslash", "\\textasciitilde", "\\textasciicircum"}

\* the empty group {} at positions i, i+1 of s, directly after one of the
\* three command names
EmptyGroupAt(s, i) ==
    /\ i >= 1
    /\ SubSeq(s, i, i + 1) = "{}"
    /\ \E name \in CommandNames :
          /\ i > Len(name)
          /\ SubSeq(s, i - Len(name), i - 1) = name

\* C3: in the output of escape_latex on a string, every & % $ # _ is
\* immediately preceded by a backslash, ~ and ^ do not occur, and every brace
\* is preceded by a backslash or belongs to the empty group that directly
\* follows \textbackslash, \textasciitilde or \textasciicircum.
C3_EscapingTotality ==
    StrInput =>
        \A i \in 1..Len(escaped) :
            LET c == CharAt(escaped, i)
            IN  /\ c \in {"&", "%", "$", "#", "_"} => PrecededByBackslash(escaped, i)
                /\ c \notin {"~", "^"}
                /\ c = "{" => PrecededByBackslash(escaped, i) \/ EmptyGroupAt(escaped, i)
                /\ c = "}" => PrecededByBackslash(escaped, i) \/ EmptyGroupAt(escaped, i - 1)

\* a string holding every reserved character class has been escaped
C3_Witness == StrInput /\ value.v = "%{~" /\ escaped = "\\%\\{\\textasciitilde{}"

\* C4: the backslash is substituted before every substitution that inserts
\* one, so the output of escape_latex on a string has as many occurrences of
\* \textbackslash as the input has backslashes.
C4_BackslashFirst ==
    StrInput => CountOcc(escaped, "\\textbackslash") = CountOcc(value.v, "\\")

\* an input with a backslash and a character whose substitute inserts one
C4_Witness ==
    StrInput /\ value.v = "\\&" /\ CountOcc(escaped, "\\textbackslash") = 1

HasReserved(s) == \E i \in 1..Len(s) : CharAt(s, i) \in Reserved

----------------------------------------------------------------------------
(* Properties of render_template, checked under Spec *)

\* the call has returned a document
Returned == pc = "done" /\ result.exc = ""

\* the three lists of the compound section
CompoundKeys == {"achievements", "publications", "certifications"}

\* the entries of the list d[key], none when d has no list there
EntriesOf(d, key) ==
    IF HasKey(d, key) /\ isinstance(Get(d, key), "list") THEN Get(d, key).v ELSE <<>>

\* the str values that the map x holds under the given keys
StrValues(x, keys) ==
    {Get(x, k).v : k \in {k \in keys : HasKey(x, k) /\ isinstance(Get(x, k), "str")}}

\* the str entries of a sequence of values
StrEntries(xs) == {xs[i].v : i \in {i \in 1..Len(xs) : isinstance(xs[i], "str")}}

\* the map entries of a sequence of values
MapEntries(xs) == {xs[i] : i \in {i \in 1..Len(xs) : isinstance(xs[i], "dict")}}

\* the bullets that an experience or project entry renders
BulletsOf(entry) ==
    LET bullets == GetOr(entry, "description", GetOr(entry, "bullets", List(<<>>)))
    IN  IF isinstance(bullets, "list") THEN StrEntries(bullets.v) ELSE {}

\* the string-valued user fields that render_template puts into the output
UserStrings(d) ==
    StrValues(d, {"name"})
    \cup StrValues(Get(d, "contact"), KNOWN_CONTACT_FIELDS)
    \cup UNION {StrValues(e, KNOWN_EDUCATION_FIELDS) : e \in MapEntries(EntriesOf(d, "education"))}
    \cup UNION {StrValues(e, {"company", "role", "location", "dates"}) \cup BulletsOf(e) :
                    e \in MapEntries(EntriesOf(d, "experience"))}
    \cup UNION {StrValues(e, {"name", "date"}) \cup BulletsOf(e) :
                    e \in MapEntries(EntriesOf(d, "projects"))}
    \cup UNION {StrValues(e, {"category"}) : e \in MapEntries(EntriesOf(d, "skills"))}
    \cup UNION {StrEntries(EntriesOf(d, k)) : k \in CompoundKeys}
    \cup UNION {StrValues(e, {"title", "issuer", "date"}) :
                    e \in MapEntries(EntriesOf(d, "achievements"))}
    \cup UNION {StrValues(e, {"title", "journal", "date"}) :
                    e \in MapEntries(EntriesOf(d, "publications"))}
    \cup UNION {StrValues(e, {"name"}) : e \in MapEntries(EntriesOf(d, "certifications"))}

\* C1: every string-valued user field that render_template puts into the
\* output (the name of a certification map included) appears there as
\* escape_latex applied once to the raw value.  Stated of the documents whose
\* compound section is kept, so that nothing has been cut out of them.
C1_ExactlyOnceEscaping ==
    Returned /\ apc # "" =>
        \A s \in UserStrings(data) : Contains(result.doc, escape_latex(Str(s)))

\* the root lacks name or contact, or its contact map lacks one of the four
MissingRequired(d) ==
    \/ ~HasKey(d, "name")
    \/ ~HasKey(d, "contact")
    \/ /\ isinstance(Get(d, "contact"), "dict")
       /\ \E k \in KNOWN_CONTACT_FIELDS : ~HasKey(Get(d, "contact"), k)

\* C7: render_template raises KeyError and returns no document whenever the
\* root lacks name, lacks contact, or contact lacks one of phone, email,
\* linkedin, github; in particular for the empty root.
C7_RequiredFieldFailure ==
    pc = "done" /\ template # "" /\ MissingRequired(data) =>
        result.exc = "KeyError" /\ result.doc = ""

\* the empty root has been rendered
C7_Witness == pc = "done" /\ template # "" /\ data = Dict(<<>>) /\ result.exc = "KeyError"

\* the root has name and a complete contact map
HasRequired(d) ==
    /\ HasKey(d, "name")
    /\ HasKey(d, "contact")
    /\ isinstance(Get(d, "contact"), "dict")
    /\ \A k \in KNOWN_CONTACT_FIELDS : HasKey(Get(d, "contact"), k)

SectionKeys == <<"education", "experience", "projects", "skills">>

OmittedSections(d) == {i \in 1..Len(SectionKeys) : ~HasKey(d, SectionKeys[i])}

\* C8 as claimed: a root with name and a complete contact that omits any of
\* education, experience, projects, skills renders to a document and does not
\* raise.
C8_SectionsOptional ==
    pc = "done" /\ template # "" /\ HasRequired(data) /\ OmittedSections(data) # {} =>
        result.exc = ""

\* the exceptions of the four section builders, in the order of their calls
SectionExcs(d) ==
    << _build_education_section(d).exc, _build_experience_section(d).exc,
       _build_projects_section(d).exc, _build_skills_section(d).exc >>

\* C8 as amended: education, experience, projects and skills are required
\* root keys too.  A root with name and a complete contact that omits any of
\* them makes render_template raise and return no document, and the exception
\* is the KeyError of the first omitted key when the sections before it
\* build; only achievements, publications and certifications may be omitted.
C8_SectionsRequired ==
    pc = "done" /\ template # "" /\ HasRequired(data) =>
        /\ OmittedSections(data) # {} =>
              /\ result.exc # ""
              /\ result.doc = ""
              /\ (\A j \in 1..(Min(OmittedSections(data)) - 1) : SectionExcs(data)[j] = "")
                    => result.exc = "KeyError"
        /\ ( /\ \A j \in 1..Len(SectionKeys) : SectionExcs(data)[j] = ""
             /\ \A k \in CompoundKeys : ~HasKey(data, k) )
              => result.exc = ""

\* a root that omits only skills has been rendered
C8_Witness ==
    /\ pc = "done"
    /\ template # ""
    /\ HasRequired(data)
    /\ OmittedSections(data) = {4}
    /\ result.exc = "KeyError"

\* tpl holds the start marker, then the placeholder, then the end marker
HasRegion(tpl) ==
    LET sp == PyFind(tpl, section_start, 0)
    IN  /\ sp # -1
        /\ LET pp == PyFind(tpl, "{{achievements_publications}}", sp)
           IN  pp # -1 /\ PyFind(tpl, section_end, pp) # -1

\* the text of tpl between the two markers
RegionInner(tpl) ==
    LET sp == PyFind(tpl, section_start, 0)
        pp == PyFind(tpl, "{{achievements_publications}}", sp)
    IN  SubSeq(tpl, sp + Len(section_start) + 1, PyFind(tpl, section_end, pp))

\* achievements, publications and certifications are each absent or empty
CompoundEmpty(d) == \A k \in CompoundKeys : ~HasTruthy(d, k)

\* C9: for a template with the start marker, the placeholder and the end
\* marker in this order, rendering data whose three lists are absent or empty
\* gives a document without the start marker, without the text that lay
\* between the markers (the placeholder included) and without the end marker
\* that closed the region.
C9_SectionOmission ==
    Returned /\ HasRegion(template) /\ CompoundEmpty(data) =>
        /\ ~Contains(result.doc, section_start)
        /\ ~Contains(result.doc, "{{achievements_publications}}")
        /\ ~Contains(result.doc, RegionInner(template))
        /\ ~Contains(result.doc, RegionInner(template) \o section_end)

\* the lines of a list of strs, one \resumeItem per entry in input order
RECURSIVE ItemLines(_)
ItemLines(xs) ==
    IF Len(xs) = 0 THEN ""
    ELSE "    \\resumeItem{" \o escape_latex(xs[1]) \o "}\n" \o ItemLines(Tail(xs))

\* d[key] is a non-empty list of strs
NonEmptyStrList(d, key) ==
    /\ HasKey(d, key)
    /\ isinstance(Get(d, key), "list")
    /\ Len(Get(d, key).v) > 0
    /\ \A i \in 1..Len(Get(d, key).v) : isinstance(Get(d, key).v[i], "str")

\* C10: when exactly one of the three lists is a non-empty list of strs and
\* the other two are empty or absent, the fragment substituted for
\* {{achievements_publications}} is \resumeItemListStart, one \resumeItem line
\* per entry of that list in input order, then \resumeItemListEnd, and
\* nothing else.
C10_SectionInclusion ==
    Returned =>
        \A k \in CompoundKeys :
            NonEmptyStrList(data, k) /\ (\A o \in CompoundKeys \ {k} : ~HasTruthy(data, o)) =>
                /\ apc = "\\resumeItemListStart\n" \o ItemLines(Get(data, k).v)
                            \o "  \\resumeItemListEnd\n"
                /\ Contains(template, "{{achievements_publications}}")
                      => Contains(result.doc, apc)

\* only publications, with two entries, has been rendered
C10_Witness ==
    /\ Returned
    /\ NonEmptyStrList(data, "publications")
    /\ Len(Get(data, "publications").v) = 2
    /\ ~HasTruthy(data, "achievements")
    /\ ~HasTruthy(data, "certifications")
    /\ CountOcc(apc, "\\resumeItem{") = 2

\* the lines of s, each without the newline that ends it
RECURSIVE Lines(_)
Lines(s) ==
    LET i == PyFind(s, "\n", 0)
    IN  IF i = -1 THEN (IF s = "" THEN <<>> ELSE <<s>>)
        ELSE <<SubSeq(s, 1, i)>> \o Lines(SubSeq(s, i + 2, Len(s)))

\* the lines that the entries of the three lists yield, list by list
AchievementLines(d) ==
    Lines(Concat([i \in 1..Len(EntriesOf(d, "achievements")) |->
                    _format_achievement_item(EntriesOf(d, "achievements")[i])]))

PublicationLines(d) ==
    Lines(Concat([i \in 1..Len(EntriesOf(d, "publications")) |->
                    _format_publication_item(EntriesOf(d, "publications")[i])]))

CertificationLines(d) ==
    Lines(Concat([i \in 1..Len(EntriesOf(d, "certifications")) |->
                    _format_certification_item(EntriesOf(d, "certifications")[i])]))

\* the number of lines of s equal to line
CountLines(s, line) == Cardinality({i \in 1..Len(Lines(s)) : Lines(s)[i] = line})

\* C11: a non-empty compound fragment has exactly one \resumeItemListStart
\* line, its first, and exactly one \resumeItemListEnd line, its last; between
\* them come the achievement lines, then the publication lines, then the
\* certification lines, whatever the order of the three keys in the root.
C11_FixedOrder ==
    Returned /\ apc # "" =>
        /\ Lines(apc) = <<"\\resumeItemListStart">> \o AchievementLines(data)
                            \o PublicationLines(data) \o CertificationLines(data)
                            \o <<"  \\resumeItemListEnd">>
        /\ CountLines(apc, "\\resumeItemListStart") = 1
        /\ CountLines(apc, "  \\resumeItemListEnd") = 1
        /\ SubSeq(apc, Len(apc), Len(apc)) = "\n"

\* a root that lists certifications, then publications, then achievements,
\* each with two entries, has been rendered
C11_Witness ==
    /\ Returned
    /\ data = Reversed(MixedCompound)
    /\ Keys(data)[1] = "certifications"
    /\ Len(Lines(apc)) = 8
    /\ Lines(apc)[2] = "    \\resumeItem{a1}"
    /\ Lines(apc)[7] = "    \\resumeItem{7}"

\* the maps among the certifications of d
CertificationMapsOf(d) == MapEntries(EntriesOf(d, "certifications"))

\* the line claimed for a certification map with a name
LinkedLine(m) ==
    IF HasTruthy(m, "link")
    THEN "    \\resumeItem{\\href{" \o PyStr(Get(m, "link")) \o "}{\\underline{"
         \o escape_latex(Get(m, "name")) \o "}}}\n"
    ELSE "    \\resumeItem{" \o escape_latex(Get(m, "name")) \o "}\n"

\* C12: a certification map with a truthy link renders as
\* \resumeItem{\href{link}{\underline{escaped name}}}; one whose link is
\* absent or the empty string renders as \resumeItem{escaped name}, with no
\* \href wrapper and not as the string form of the map.
C12_CertificationLinks ==
    Returned =>
        \A m \in CertificationMapsOf(data) :
            HasKey(m, "name") =>
                /\ _format_certification_item(m) = LinkedLine(m)
                /\ Contains(apc, LinkedLine(m))

\* x is neither a str nor a map
Odd(x) == ~isinstance(x, "str") /\ ~isinstance(x, "dict")

\* the indexes of the odd entries of the list d[key]
OddIndexes(d, key) == {i \in 1..Len(EntriesOf(d, key)) : Odd(EntriesOf(d, key)[i])}

\* nothing but the entries of the three lists can make the call raise
BuildsSections(d) ==
    /\ HasRequired(d)
    /\ \A j \in 1..Len(SectionKeys) : SectionExcs(d)[j] = ""
    /\ \A k \in CompoundKeys : HasKey(d, k) => isinstance(Get(d, k), "list")

\* C13: a certification entry that is neither a string nor a map (a number,
\* None, a list) is not rejected: the call does not raise and the entry
\* yields one line, \resumeItem{string form of the entry}, at its place among
\* the certification lines, which end the fragment's item lines.
C13_CertificationFallback ==
    pc = "done" /\ template # "" /\ BuildsSections(data)
        /\ OddIndexes(data, "certifications") # {} =>
        /\ result.exc = ""
        /\ Len(CertificationLines(data)) = Len(EntriesOf(data, "certifications"))
        /\ \A i \in OddIndexes(data, "certifications") :
              LET n == Len(Lines(apc))
                  k == Len(EntriesOf(data, "certifications"))
              IN  /\ n >= k + 2
                  /\ Lines(apc)[n - 1 - k + i]
                        = "    \\resumeItem{" \o PyStr(EntriesOf(data, "certifications")[i]) \o "}"

\* a certification list with a str and then None has been rendered
C13_Witness ==
    /\ Returned
    /\ EntriesOf(data, "certifications") = <<Str("s&"), None>>
    /\ Lines(apc)[3] = "    \\resumeItem{None}"

\* escape_latex applied to the string form of the value x[key]
Escaped(x, key) == escape_latex(Str(PyStr(Get(x, key))))

\* the text claimed for an achievement map: T I D
AchievementText(m) ==
    (IF HasKey(m, "title") THEN Escaped(m, "title") ELSE "")
    \o (IF HasKey(m, "issuer") /\ Truthy(Get(m, "issuer"))
        THEN " at " \o Escaped(m, "issuer") ELSE "")
    \o (IF HasKey(m, "date") /\ Truthy(Get(m, "date"))
        THEN " (" \o Escaped(m, "date") \o ")" ELSE "")

\* the line claimed for an achievement that is a str or a map
ClaimedAchievementLine(x) ==
    "    \\resumeItem{"
    \o (IF isinstance(x, "str") THEN escape_latex(x) ELSE AchievementText(x)) \o "}"

\* the indexes of the str and map entries of the list d[key]
ShapedIndexes(d, key) == {i \in 1..Len(EntriesOf(d, key)) : ~Odd(EntriesOf(d, key)[i])}

\* the number of odd entries of d[key] before index i
OddBefore(d, key, i) == Cardinality({j \in OddIndexes(d, key) : j < i})

\* C14: a string achievement yields \resumeItem{escaped string}; a map
\* achievement yields \resumeItem{T I D}: T the escaped title when the key
\* title is present, I " at " and the escaped issuer only when issuer is
\* truthy, D " (" escaped date ")" only when date is truthy; title A, issuer B,
\* date C give "A at B (C)".
C14_AchievementRendering ==
    Returned =>
        /\ \A i \in ShapedIndexes(data, "achievements") :
              Lines(apc)[1 + i - OddBefore(data, "achievements", i)]
                  = ClaimedAchievementLine(EntriesOf(data, "achievements")[i])
        /\ AchievementText(Dict(<< <<"title", Str("A")>>, <<"issuer", Str("B")>>,
                                   <<"date", Str("C")>> >>)) = "A at B (C)"

\* a map achievement with a title, an empty issuer and a date has been rendered
C14_Witness ==
    /\ Returned
    /\ EntriesOf(data, "achievements")
          = << Dict(<< <<"title", Str("A & B")>>, <<"issuer", Str("")>>,
                       <<"date", Str("C#")>> >>) >>
    /\ Lines(apc)[2] = "    \\resumeItem{A \\& B (C\\#)}"

\* the text claimed for a publication map: T J D
PublicationText(m) ==
    (IF HasKey(m, "title") THEN OpenQuote \o Escaped(m, "title") \o "''" ELSE "")
    \o (IF HasKey(m, "journal") /\ Truthy(Get(m, "journal"))
        THEN " in " \o Escaped(m, "journal") ELSE "")
    \o (IF HasKey(m, "date") /\ Truthy(Get(m, "date"))
        THEN " (" \o Escaped(m, "date") \o ")" ELSE "")

\* the line claimed for a publication that is a str or a map
ClaimedPublicationLine(x) ==
    "    \\resumeItem{"
    \o (IF isinstance(x, "str") THEN escape_latex(x) ELSE PublicationText(x)) \o "}"

\* C15: a string publication yields \resumeItem{escaped string}; a map
\* publication yields \resumeItem{T J D}: T the escaped title between the
\* opening and closing quotes when the key title is present, J " in " and the
\* escaped journal only when journal is truthy, D " (" escaped date ")" only
\* when date is truthy.
C15_PublicationRendering ==
    Returned =>
        \A i \in ShapedIndexes(data, "publications") :
            Lines(apc)[1 + Len(AchievementLines(data)) + i - OddBefore(data, "publications", i)]
                = ClaimedPublicationLine(EntriesOf(data, "publications")[i])

\* a map publication with title, journal and date has been rendered
C15_Witness ==
    /\ Returned
    /\ EntriesOf(data, "publications")
          = << Dict(<< <<"title", Str("T & U")>>, <<"journal", Str("J_k")>>,
                       <<"date", Str("2020#")>> >>) >>
    /\ Lines(apc)[2] = "    \\resumeItem{" \o OpenQuote \o "T \\& U'' in J\\_k (2020\\#)}"

\* the number of entries of the sequence xs equal to x
CountIn(xs, x) == Cardinality({i \in 1..Len(xs) : xs[i] = x})

\* the number of warnings of the log that hold the text sub
CountWarnings(sub) == Cardinality({i \in 1..Len(log) : Contains(log[i], sub)})

\* C16: an achievement or publication entry that is neither a string nor a
\* map contributes no output line and raises no error at render time, while
\* validation logs exactly one warning that names the entry's index (from 0)
\* in its list.
C16_OddEntriesSkipped ==
    pc = "done" /\ template # "" /\ BuildsSections(data) =>
        /\ result.exc = ""
        /\ Len(AchievementLines(data)) = Cardinality(ShapedIndexes(data, "achievements"))
        /\ Len(PublicationLines(data)) = Cardinality(ShapedIndexes(data, "publications"))
        /\ apc # "" =>
              Len(Lines(apc)) = 2 + Cardinality(ShapedIndexes(data, "achievements"))
                                  + Cardinality(ShapedIndexes(data, "publications"))
                                  + Len(EntriesOf(data, "certifications"))
        /\ \A i \in OddIndexes(data, "achievements") :
              CountIn(log, "Achievement at index " \o ToString(i - 1)
                           \o " should be a string or dict") = 1
        /\ CountWarnings("Achievement at index")
              = Cardinality(OddIndexes(data, "achievements"))
        /\ \A i \in OddIndexes(data, "publications") :
              CountIn(log, "Publication at index " \o ToString(i - 1)
                           \o " should be a string or dict") = 1
        /\ CountWarnings("Publication at index")
              = Cardinality(OddIndexes(data, "publications"))

\* an achievement list with a str and then a number has been rendered
C16_Witness ==
    /\ Returned
    /\ EntriesOf(data, "achievements") = <<Str("s&"), PyInt(7)>>
    /\ log = <<"Achievement at index 1 should be a string or dict">>
    /\ Lines(apc) = <<"\\resumeItemListStart", "    \\resumeItem{s\\&}", "  \\resumeItemListEnd">>

\* no user string holds the text of a placeholder or of the start marker, so
\* every built fragment stays in the document as it was built
Undisturbed(d) ==
    \A s \in UserStrings(d) : ~Contains(s, "{{") /\ ~Contains(s, section_start)

\* the map x with its key from renamed to
Renamed(x, from, to) ==
    Dict([i \in 1..Len(x.v) |-> IF x.v[i][1] = from THEN <<to, x.v[i][2]>> ELSE x.v[i]])

\* the entry carries a list under description and has no key bullets
DescriptionOnly(e) ==
    HasKey(e, "description") /\ isinstance(Get(e, "description"), "list") /\ ~HasKey(e, "bullets")

\* the output of a section builder on a root whose list d[key] is xs
BuiltFrom(key, xs) ==
    LET d == Dict(<< <<key, List(xs)>> >>)
    IN  IF key = "experience" THEN _build_experience_section(d) ELSE _build_projects_section(d)

\* C17: an experience entry (a project entry) that carries a list of bullets
\* under description and the otherwise identical entry that carries the list
\* under the legacy key bullets give byte-identical builder output.
C17_SchemaAlias ==
    Returned =>
        \A key \in {"experience", "projects"} :
            \A e \in MapEntries(EntriesOf(data, key)) :
                DescriptionOnly(e) =>
                    /\ BuiltFrom(key, <<e>>).exc = ""
                    /\ BuiltFrom(key, <<Renamed(e, "description", "bullets")>>)
                          = BuiltFrom(key, <<e>>)
                    /\ Undisturbed(data) =>
                          Contains(result.doc,
                                   BuiltFrom(key, <<Renamed(e, "description", "bullets")>>).out)

\* an experience entry with two bullets under description has been rendered
C17_Witness ==
    /\ Returned
    /\ \E e \in MapEntries(EntriesOf(data, "experience")) :
          /\ DescriptionOnly(e)
          /\ Len(Get(e, "description").v) = 2
    /\ CountOcc(result.doc, "    \\resumeItem{d\\_}\n") = 2

\* s ends with suffix
EndsWith(s, suffix) ==
    Len(s) >= Len(suffix) /\ SubSeq(s, Len(s) - Len(suffix) + 1, Len(s)) = suffix

\* the bullets claimed for an entry: those of description when the key is
\* present, else those of bullets, else none
ClaimedBullets(e) ==
    IF HasKey(e, "description") THEN Get(e, "description")
    ELSE IF HasKey(e, "bullets") THEN Get(e, "bullets")
    ELSE List(<<>>)

\* the bulleted list of the given strs
BulletBlock(xs) ==
    "  \\resumeItemListStart\n" \o ItemLines(xs) \o "  \\resumeItemListEnd\n"

\* C18: the bullets of an experience or project entry are those of
\* description whenever the key description is present (also when bullets is
\* present too, and when description is an empty list), else those of
\* bullets, else none; an entry with neither key renders \resumeItemListStart
\* directly followed by \resumeItemListEnd and raises no error.
C18_BulletPrecedence ==
    Returned =>
        \A key \in {"experience", "projects"} :
            \A e \in MapEntries(EntriesOf(data, key)) :
                isinstance(ClaimedBullets(e), "list") =>
                    /\ BuiltFrom(key, <<e>>).exc = ""
                    /\ EndsWith(BuiltFrom(key, <<e>>).out, BulletBlock(ClaimedBullets(e).v))
                    /\ CountOcc(BuiltFrom(key, <<e>>).out, "\\resumeItem{")
                          = Len(ClaimedBullets(e).v)
                    /\ Undisturbed(data) => Contains(result.doc, BuiltFrom(key, <<e>>).out)

\* a project with an empty description and a bullet under bullets has been
\* rendered with no bullet
C18_Witness ==
    /\ Returned
    /\ \E e \in MapEntries(EntriesOf(data, "projects")) :
          /\ HasKey(e, "description") /\ Get(e, "description") = List(<<>>)
          /\ HasKey(e, "bullets") /\ Get(e, "bullets") = List(<<Str("b&")>>)
    /\ Contains(result.doc, "  \\resumeItemListStart\n  \\resumeItemListEnd\n")
    /\ ~Contains(result.doc, "b\\&")

\* x[key] is present and truthy
Set(x, key) == HasKey(x, key) /\ Truthy(Get(x, key))

\* the title line claimed for a project
ClaimedTitleLine(e) ==
    "  {\\textbf{" \o escape_latex(Get(e, "name")) \o "}"
    \o (IF Set(e, "technologies")
        THEN " $|$ \\emph{" \o escape_latex(Get(e, "technologies")) \o "}"
        ELSE IF Set(e, "link")
        THEN " $|$ \\emph{" \o escape_latex(Get(e, "link")) \o "}"
        ELSE "")
    \o (IF Set(e, "date") THEN "}{" \o escape_latex(Get(e, "date")) \o "}" ELSE "}{}")

\* C19: the title line of a project is {\textbf{escaped name} followed by
\* " $|$ \emph{escaped technologies}" when technologies is truthy, otherwise
\* by " $|$ \emph{escaped link}" when link is truthy, otherwise by nothing;
\* it ends with }{escaped date} when date is truthy and with }{} otherwise.
C19_ProjectTitleLine ==
    Returned =>
        \A e \in MapEntries(EntriesOf(data, "projects")) :
            HasKey(e, "name") /\ BuiltFrom("projects", <<e>>).exc = "" =>
                /\ Lines(BuiltFrom("projects", <<e>>).out)[1] = "\\resumeProjectHeading"
                /\ Lines(BuiltFrom("projects", <<e>>).out)[2] = ClaimedTitleLine(e)
                /\ Undisturbed(data) => Contains(result.doc, ClaimedTitleLine(e) \o "\n")

\* a project with technologies and a link, both truthy, and an empty date
\* has been rendered
C19_Witness ==
    /\ Returned
    /\ \E e \in MapEntries(EntriesOf(data, "projects")) :
          Set(e, "technologies") /\ Set(e, "link") /\ HasKey(e, "date") /\ ~Set(e, "date")
    /\ Contains(result.doc,
                "  {\\textbf{P\\textasciicircum{}2} $|$ \\emph{T\\textasciitilde{}}}{}\n")

\* the skill entry's list is a list of strs
StrList(x) == isinstance(x, "list") /\ \A i \in 1..Len(x.v) : isinstance(x.v[i], "str")

\* the items of a list of strs joined with ", "
Joined(x) == Join(", ", [i \in 1..Len(x.v) |-> x.v[i].v])

\* the output of the skills builder on a root whose skills are xs
SkillsFrom(xs) == _build_skills_section(Dict(<< <<"skills", List(xs)>> >>))

\* the skill entry with the given category and list
Skill(category, list) == Dict(<< <<"category", category>>, <<"list", list>> >>)

\* C20: for a skill entry with a list of strings the builder emits
\* \textbf{escaped category}{: X} \\ with X escape_latex applied once to the
\* items joined with ", "; so the list of the items and the list whose single
\* item is their joined text, as ["a", "b"] and ["a, b"], give identical output.
C20_SkillsLine ==
    Returned =>
        /\ \A e \in MapEntries(EntriesOf(data, "skills")) :
              HasKey(e, "category") /\ HasKey(e, "list") /\ StrList(Get(e, "list")) =>
                  /\ SkillsFrom(<<e>>)
                        = Ok("\\textbf{" \o escape_latex(Get(e, "category")) \o "}{: "
                             \o escape_latex(Str(Joined(Get(e, "list")))) \o "} \\\\\n")
                  /\ SkillsFrom(<<Skill(Get(e, "category"), List(<<Str(Joined(Get(e, "list")))>>))>>)
                        = SkillsFrom(<<e>>)
                  /\ Undisturbed(data) => Contains(result.doc, SkillsFrom(<<e>>).out)
        /\ SkillsFrom(<<Skill(Str("c"), List(<<Str("a, b")>>))>>)
              = SkillsFrom(<<Skill(Str("c"), List(<<Str("a"), Str("b")>>))>>)

\* a skill entry with the items a and b has been rendered
C20_Witness ==
    /\ Returned
    /\ \E e \in MapEntries(EntriesOf(data, "skills")) :
          Get(e, "list") = List(<<Str("a"), Str("b")>>)
    /\ Contains(result.doc, "\\textbf{Lang\\_s}{: a, b} \\\\\n")

\* x is a str or a number
Scalar(x) == isinstance(x, "str") \/ isinstance(x, "int")

\* the skill entry has a category and a list of scalars
ScalarSkill(e) ==
    /\ HasKey(e, "category")
    /\ HasKey(e, "list")
    /\ isinstance(Get(e, "list"), "list")
    /\ \A i \in 1..Len(Get(e, "list").v) : Scalar(Get(e, "list").v[i])

\* the string forms of the items of a list, each escaped, joined with ", "
ScalarItems(x) == Join(", ", [i \in 1..Len(x.v) |-> escape_latex(Str(PyStr(x.v[i])))])

\* C21: a skill entry whose list is a sequence of scalars of any kind renders
\* as category: item1, item2, ... without raising, the items that are not
\* strings by their string form.
C21_ScalarSkillItems ==
    pc = "done" /\ template # "" /\ HasRequired(data)
        /\ (\A j \in 1..3 : SectionExcs(data)[j] = "")
        /\ (\A k \in CompoundKeys : ~HasKey(data, k))
        /\ HasKey(data, "skills") =>
        \A e \in MapEntries(EntriesOf(data, "skills")) :
            ScalarSkill(e) =>
                /\ result.exc = ""
                /\ SkillsFrom(<<e>>)
                      = Ok("\\textbf{" \o escape_latex(Get(e, "category")) \o "}{: "
                           \o ScalarItems(Get(e, "list")) \o "} \\\\\n")

\* the map x without the keys outside known; any other value as it is
KnownOnly(x, known) ==
    IF isinstance(x, "dict") THEN Dict(SelectSeq(x.v, LAMBDA p : p[1] \in known)) ELSE x

\* the list xs with each map entry cut down to its known keys
KnownEntries(xs, known) ==
    IF isinstance(xs, "list")
    THEN List([i \in 1..Len(xs.v) |-> KnownOnly(xs.v[i], known)])
    ELSE xs

\* the allow-list of the entries of a list section
EntryFields(key) ==
    CASE key = "education" -> KNOWN_EDUCATION_FIELDS
      [] key = "experience" -> KNOWN_EXPERIENCE_FIELDS
      [] key = "projects" -> KNOWN_PROJECT_FIELDS
      [] key = "skills" -> KNOWN_SKILLS_FIELDS

\* the root d without its keys outside the allow-lists, at root level, in
\* contact and in the entries of the four list sections
Stripped(d) ==
    LET root == KnownOnly(d, KNOWN_ROOT_FIELDS)
    IN  Dict([i \in 1..Len(root.v) |->
            LET key == root.v[i][1]
                x == root.v[i][2]
            IN  IF key = "contact" THEN <<key, KnownOnly(x, KNOWN_CONTACT_FIELDS)>>
                ELSE IF key \in {"education", "experience", "projects", "skills"}
                THEN <<key, KnownEntries(x, EntryFields(key))>>
                ELSE <<key, x>>])

ClaimedRootFields ==
    {"name", "contact", "education", "experience", "projects", "skills",
     "certifications", "achievements", "publications"}

\* the name of a list section in the warnings about its entries
SectionName(key) == IF key = "projects" THEN "project" ELSE key

\* the keys of the map x, as a set; none when x is no map
KeySet(x) == IF isinstance(x, "dict") THEN {x.v[i][1] : i \in 1..Len(x.v)} ELSE {}

\* the contact map of d, the empty map when d has none
ContactOf(d) == IF HasKey(d, "contact") THEN Get(d, "contact") ELSE Dict(<<>>)

\* the indexes of the map entries of d[key] that hold the key k
EntriesWith(d, key, k) ==
    {i \in 1..Len(EntriesOf(d, key)) : k \in KeySet(EntriesOf(d, key)[i])}

\* the keys of the map entries of d[key]
EntryKeys(d, key) == UNION {KeySet(EntriesOf(d, key)[i]) : i \in 1..Len(EntriesOf(d, key))}

\* the keys of EntryKeys outside the section's allow-list, with the indexes
\* of the entries that hold them
UnknownEntryKeys(d, key) ==
    {<<i, k>> \in (1..Len(EntriesOf(d, key))) \X (EntryKeys(d, key) \ EntryFields(key)) :
        i \in EntriesWith(d, key, k)}

\* C23: validate_data logs exactly one warning naming the key for each key
\* outside the allow-list at root level, in contact and in each map entry of
\* education, experience, projects and skills, and no warning for an
\* allow-listed key; certifications, achievements and publications are
\* allow-listed root keys.
C23_UnknownKeyWarnings ==
    pc = "done" /\ template # "" =>
        /\ \A k \in KeySet(data) :
              CountIn(log, "Unknown field '" \o k \o "' at root level")
                  = IF k \in ClaimedRootFields THEN 0 ELSE 1
        /\ CountWarnings("at root level") = Cardinality(KeySet(data) \ ClaimedRootFields)
        /\ \A k \in KeySet(ContactOf(data)) :
              CountIn(log, "Unknown field '" \o k \o "' in contact section")
                  = IF k \in {"phone", "email", "linkedin", "github"} THEN 0 ELSE 1
        /\ CountWarnings("in contact section")
              = Cardinality(KeySet(ContactOf(data)) \ {"phone", "email", "linkedin", "github"})
        /\ \A key \in {"education", "experience", "projects", "skills"} :
              /\ \A k \in EntryKeys(data, key) :
                    CountIn(log, "Unknown field '" \o k \o "' in " \o SectionName(key) \o " entry")
                        = IF k \in EntryFields(key) THEN 0
                          ELSE Cardinality(EntriesWith(data, key, k))
              /\ CountWarnings("in " \o SectionName(key) \o " entry")
                    = Cardinality(UnknownEntryKeys(data, key))

\* a root with an unknown key at each of the six places has been validated
C23_Witness ==
    /\ pc = "done"
    /\ data = WithExtras(ExtraPlaces)
    /\ log = << "Unknown field 'summary' at root level",
                "Unknown field 'twitter' in contact section",
                "Unknown field 'gpa' in education entry",
                "Unknown field 'team' in experience entry",
                "Unknown field 'stars' in project entry",
                "Unknown field 'level' in skills entry" >>

\* the nine placeholders that precede the compound section, each with the
\* text substituted for it, for a call that returns
SubstitutionTable(d) ==
    << <<"{{name}}", escape_latex(Get(d, "name"))>>,
       <<"{{phone}}", escape_latex(Get(Get(d, "contact"), "phone"))>>,
       <<"{{email}}", escape_latex(Get(Get(d, "contact"), "email"))>>,
       <<"{{linkedin}}", escape_latex(Get(Get(d, "contact"), "linkedin"))>>,
       <<"{{github}}", escape_latex(Get(Get(d, "contact"), "github"))>>,
       <<"{{education}}", _build_education_section(d).out>>,
       <<"{{experience}}", _build_experience_section(d).out>>,
       <<"{{projects}}", _build_projects_section(d).out>>,
       <<"{{skills}}", _build_skills_section(d).out>> >>

\* the template after these nine substitutions, made one after the other
Substituted(d, tpl) == ReplaceEach(tpl, SubstitutionTable(d))

\* C24: when the compound fragment is empty and the start marker or the end
\* marker does not occur in the substituted template, render_template returns
\* the substituted template unchanged and raises no error.
C24_ExcisionNoOp ==
    Returned /\ apc = ""
        /\ ( \/ ~Contains(Substituted(data, template), section_start)
             \/ ~Contains(Substituted(data, template), section_end) ) =>
        result.doc = Substituted(data, template)

\* the positions (from 0) at which sub occurs in s
Occurrences(s, sub) == {i \in 0..(Len(s) - Len(sub)) : SubSeq(s, i + 1, i + Len(sub)) = sub}

\* the first occurrence of the start marker in s
StartAt(s) == Min(Occurrences(s, section_start))

\* the end markers of s at or after its first start marker
EndsAfterStart(s) == {i \in Occurrences(s, section_end) : i >= StartAt(s)}

\* both markers occur in s, the end marker at or after the first start marker
\* and with a character after it
BothMarkers(s) ==
    /\ Occurrences(s, section_start) # {}
    /\ EndsAfterStart(s) # {}
    /\ Min(EndsAfterStart(s)) + Len(section_end) < Len(s)

\* the number of characters of the range removed from s
RemovedLength(s) == Min(EndsAfterStart(s)) + Len(section_end) + 1 - StartAt(s)

\* C25: when the compound fragment is empty and both markers occur, the
\* output is the substituted template with one contiguous range removed: from
\* the first start marker through the first end marker at or after it, plus
\* one further character; the characters before and after are kept in order.
C25_ExcisionRange ==
    Returned /\ apc = "" /\ BothMarkers(Substituted(data, template)) =>
        LET s == Substituted(data, template)
        IN  /\ Len(result.doc) = Len(s) - RemovedLength(s)
            /\ SubSeq(result.doc, 1, StartAt(s)) = SubSeq(s, 1, StartAt(s))
            /\ SubSeq(result.doc, StartAt(s) + 1, Len(result.doc))
                  = SubSeq(s, StartAt(s) + RemovedLength(s) + 1, Len(s))

\* the template with a rule line before the header has been rendered without
\* its region, the rule line kept
C25_Witness ==
    /\ Returned
    /\ apc = ""
    /\ template = RuledTemplate
    /\ Get(data, "name") = Str("Jane Doe")
    /\ Len(result.doc) = Len(Substituted(data, template)) - Len(TemplateRegion)
    /\ ~Contains(result.doc, section_start)
    /\ CountOcc(result.doc, section_end) = 1

\* the number of characters of the template's own region: the start marker,
\* the text between the markers, the end marker and one character
RegionLength(tpl) == Len(section_start) + Len(RegionInner(tpl)) + Len(section_end) + 1

\* C26: when the compound fragment is empty, the range removed is the
\* template's own marker-delimited region whatever the user's string fields
\* hold: a name that holds the start-marker text is not taken for the
\* marker, and all substituted user content survives in the output.
C26_ExcisionTemplateOnly ==
    Returned /\ apc = "" /\ HasRegion(template) =>
        /\ Len(result.doc) = Len(Substituted(data, template)) - RegionLength(template)
        /\ \A s \in UserStrings(data) : Contains(result.doc, escape_latex(Str(s)))

\* every leaf of the value x is a str
RECURSIVE AllStr(_)
AllStr(x) ==
    CASE x.t = "str" -> TRUE
      [] x.t = "list" -> \A i \in 1..Len(x.v) : AllStr(x.v[i])
      [] x.t = "dict" -> \A i \in 1..Len(x.v) : AllStr(x.v[i][2])
      [] OTHER -> FALSE

\* the user fields of d are string-valued: every leaf is a str and every
\* certification is a str
StringValued(d) ==
    /\ AllStr(d)
    /\ \A i \in 1..Len(EntriesOf(d, "certifications")) :
          isinstance(EntriesOf(d, "certifications")[i], "str")

\* the positions (from 1) of s at or after from where a placeholder of the
\* table starts, each with the placeholder's index
TokensFrom(s, from, table) ==
    {<<i, k>> \in {i \in Occurrences(s, "{{") : i + 1 >= from} \X (1..Len(table)) :
        SubSeq(s, i + 1, i + Len(table[k][1])) = table[k][1]}

\* s from position from on, with every placeholder of the table replaced by
\* its text in one left-to-right pass: substituted text is never read again
RECURSIVE Simultaneous(_, _, _)
Simultaneous(s, from, table) ==
    LET tokens == TokensFrom(s, from, table)
    IN  IF tokens = {} THEN SubSeq(s, from, Len(s))
        ELSE LET first == CHOOSE t \in tokens : \A u \in tokens : t[1] <= u[1]
             IN  SubSeq(s, from, first[1]) \o table[first[2]][2]
                 \o Simultaneous(s, first[1] + Len(table[first[2]][1]) + 1, table)

\* the user strings of d that hold the opening of a placeholder
TokenLike(d) == {s \in UserStrings(d) : Contains(s, "{{")}

\* C27: for string-valued user fields, user text that spells a placeholder is
\* never expanded by a later substitution: it appears in its escaped literal
\* form, and the output is the one of substituting all placeholders
\* simultaneously.
C27_NoPlaceholderInjection ==
    Returned /\ StringValued(data) =>
        /\ Substituted(data, template) = Simultaneous(template, 1, SubstitutionTable(data))
        /\ apc # "" =>
              result.doc = Simultaneous(template, 1,
                              Append(SubstitutionTable(data),
                                     <<"{{achievements_publications}}", apc>>))
        /\ apc = "" => result.doc = Excise(Simultaneous(template, 1, SubstitutionTable(data)))
        /\ \A s \in TokenLike(data) :
              Contains(Substituted(data, template), escape_latex(Str(s)))
        /\ apc # "" => \A s \in TokenLike(data) : Contains(result.doc, escape_latex(Str(s)))

\* a name that spells the email placeholder has been rendered
C27_Witness ==
    /\ Returned
    /\ Get(data, "name") = Str("{{email}}")
    /\ apc # ""
    /\ Contains(result.doc, "\n\\{\\{email\\}\\}\n")
    /\ CountOcc(result.doc, "j@x.com") = 1

\* C28: the compound fragment is empty exactly when achievements,
\* publications and certifications are all absent or empty, and a non-empty
\* fragment encloses at least one \resumeItem line: \resumeItemListStart is
\* never directly followed by \resumeItemListEnd.
C28_WrapperNeverEmpty ==
    Returned =>
        /\ apc = "" <=> CompoundEmpty(data)
        /\ apc # "" =>
              /\ CountOcc(apc, "\\resumeItem{") >= 1
              /\ ~Contains(apc, "\\resumeItemListStart\n  \\resumeItemListEnd\n")

\* the output of the builder of the list section key on the entries xs
SectionFrom(key, xs) ==
    IF key = "education" THEN _build_education_section(Dict(<< <<key, List(xs)>> >>))
    ELSE BuiltFrom(key, xs)

\* the heading line of an entry of the list section key
Heading(key) == IF key = "projects" THEN "\\resumeProjectHeading" ELSE "\\resumeSubheading"

\* the entries of d[key] are maps that build, their bullets lists of strs
PlainEntries(d, key) ==
    /\ HasKey(d, key)
    /\ isinstance(Get(d, key), "list")
    /\ \A i \in 1..Len(EntriesOf(d, key)) :
          LET e == EntriesOf(d, key)[i]
          IN  /\ isinstance(e, "dict")
              /\ AllStr(e)
              /\ SectionFrom(key, <<e>>).exc = ""
              /\ isinstance(ClaimedBullets(e), "list")

\* the lines of ls that are a list's start or end, in order
StartsAndEnds(ls) ==
    SelectSeq(ls, LAMBDA l : l \in {"  \\resumeItemListStart", "  \\resumeItemListEnd"})

\* the line opens a \resumeItem
IsItemLine(l) == Len(l) >= 16 /\ SubSeq(l, 1, 16) = "    \\resumeItem{"

\* the lines of ls that are a \resumeItem line, in order
ItemsOf(ls) == SelectSeq(ls, IsItemLine)

\* the number of lines among the first j of ls equal to line
CountBefore(ls, j, line) == Cardinality({i \in 1..j : ls[i] = line})

\* the bullets of all entries, entry after entry
RECURSIVE AllBullets(_)
AllBullets(xs) ==
    IF Len(xs) = 0 THEN <<>> ELSE ClaimedBullets(xs[1]).v \o AllBullets(Tail(xs))

\* C29: for entries whose bullets are lists of strings, the education output
\* has one \resumeSubheading wrapper per entry in input order; the experience
\* and projects outputs have per entry one heading, one \resumeItemListStart
\* and one \resumeItemListEnd, alternating and starting with Start, every
\* \resumeItem line between an entry's Start and End, one per bullet in input
\* order; no entry is skipped or merged.
C29_StructuralCounts ==
    Returned =>
        \A key \in {"education", "experience", "projects"} :
            PlainEntries(data, key) =>
                LET xs == EntriesOf(data, key)
                    out == SectionFrom(key, xs).out
                    ls == Lines(out)
                IN  /\ SectionFrom(key, xs).exc = ""
                    /\ CountLines(out, Heading(key)) = Len(xs)
                    /\ out = Concat([i \in 1..Len(xs) |-> SectionFrom(key, <<xs[i]>>).out])
                    /\ \A i \in 1..Len(xs) :
                          /\ Lines(SectionFrom(key, <<xs[i]>>).out)[1] = Heading(key)
                          /\ CountLines(SectionFrom(key, <<xs[i]>>).out, Heading(key)) = 1
                    /\ key = "education" => StartsAndEnds(ls) = <<>> /\ ItemsOf(ls) = <<>>
                    /\ key # "education" =>
                          /\ StartsAndEnds(ls)
                                = [i \in 1..(2 * Len(xs)) |->
                                      IF i % 2 = 1 THEN "  \\resumeItemListStart"
                                      ELSE "  \\resumeItemListEnd"]
                          /\ \A j \in 1..Len(ls) :
                                IsItemLine(ls[j]) =>
                                    CountBefore(ls, j, "  \\resumeItemListStart")
                                        = CountBefore(ls, j, "  \\resumeItemListEnd") + 1
                          /\ ItemsOf(ls) = Lines(ItemLines(AllBullets(xs)))
                    /\ Undisturbed(data) => Contains(result.doc, out)

\* two experience entries, with two bullets and with one, have been rendered
C29_Witness ==
    /\ Returned
    /\ EntriesOf(data, "experience") = ExperiencePair
    /\ CountOcc(result.doc, "\\resumeSubheading\n") = 2
    /\ CountOcc(result.doc, "  \\resumeItemListStart\n") = 2
    /\ CountOcc(result.doc, "    \\resumeItem{") = 3

\* the ten placeholders of the template
Placeholders ==
    {"{{name}}", "{{phone}}", "{{email}}", "{{linkedin}}", "{{github}}", "{{education}}",
     "{{experience}}", "{{projects}}", "{{skills}}", "{{achievements_publications}}"}

\* the four list sections of d are empty lists
EmptySections(d) ==
    \A key \in {"education", "experience", "projects", "skills"} : Get(d, key) = List(<<>>)

\* C30: for a template whose {{achievements_publications}} lies between the
\* two markers and for string-valued user fields, the returned document holds
\* none of the ten placeholders, whether the compound fragment is empty or
\* not; a section whose list is empty leaves its placeholder replaced by the
\* empty string, the template text around it unchanged.
C30_NoPlaceholderSurvives ==
    Returned /\ HasRegion(template) /\ StringValued(data) =>
        /\ \A token \in Placeholders : ~Contains(result.doc, token)
        /\ EmptySections(data) =>
              Contains(result.doc,
                       "\\section{Education}\n\\section{Experience}\n\\section{Projects}\n"
                       \o "\\section{Skills}\n\n")

====
